---- MODULE Spec2Model ----
(***************************************************************************)
(* Model of mc-attr: the playtime quota ledger (sessions.json), the cycle  *)
(* engine session_cycle() of session_manager.py and the ledger-mutating    *)
(* chat commands of command_handler.py.                                    *)
(*                                                                         *)
(* Time is the wall clock in whole seconds; second 0 is a Monday 00:00, so *)
(* a date is  t \div 86400  and datetime.weekday() is  date % 7            *)
(* (0 = Monday .. 6 = Sunday).  A session is the JSON object of one player *)
(* without "session_start", which the program writes and never reads.      *)
(* "announcements" is the set of labels whose flag is true.                *)
(***************************************************************************)
EXTENDS Integers, FiniteSets, Sequences, TLC

Players == {"p1", "p2"}

\* ---- bounds of the model ------------------------------------------------
\* number of operations (cycles and commands) in one explored run
MaxSteps == 3

\* ---- program constants --------------------------------------------------
DaySeconds == 86400
\* constants.py (MAXIMUM_PLAYTIME_INT, hours) and PLAY_LIMIT in seconds
MAXIMUM_PLAYTIME_INT == 3
PLAY_LIMIT == MAXIMUM_PLAYTIME_INT * 3600

Labels == {"1min", "5min", "10min", "15min", "30min"}
\* thresholds, ascending, as (seconds, label)
thresholds == << <<60, "1min">>, <<300, "5min">>, <<600, "10min">>,
                 <<900, "15min">>, <<1800, "30min">> >>

Max(a, b) == IF a >= b THEN a ELSE b

Date(t) == t \div DaySeconds
Weekday(t) == Date(t) % 7
YesterdayWeekday(t) == Date(t - DaySeconds) % 7

VARIABLES
  file,                      \* sessions.json: [known players -> session]
  unlimited_play_announced,  \* session_manager.unlimited_play_announced
  first_cycle,               \* session_manager.first_cycle
  FREEPLAY_DAYS,             \* constants.FREEPLAY_DAYS, as the set of the
                             \* weekdays whose entry is true (fixed per run)
  now,                       \* the wall clock, seconds
  steps,                     \* operations performed so far
  sup,                       \* main.managed_session_manager: "outer" (next
                             \* health check is line 75), "inner" (line 80)
                             \* or "dead" (the thread ended on an exception)
  console_running,           \* websocket_console: the monitor still handles
                             \* console lines
  ev,                        \* the last operation and its inputs
  pre,                       \* the ledger the last operation loaded first
  mem_reset,                 \* session_cycle: `sessions` in memory after
                             \* the daily reset loop (line 124)
  mem,                       \* session_cycle: `sessions` in memory before
                             \* the second load_sessions() (line 148)
  mem_roster,                \* session_cycle: `sessions` in memory after
                             \* the roster was processed (line 219)
  out,                       \* what the last operation sent to the server
  \* history, per player, derived from the operations and their output
  last_reset,                \* date of the last cycle that applied the daily
                             \* reset to the player, or -1
  ban_day,                   \* date of the last limit-reached ban, or -1
  limit_bans,                \* limit-reached bans issued since the banned
                             \* flag was last false
  streak,                    \* the run of consecutive charging cycles
  fired_day,                 \* per label: announcements since the player's
                             \* session_date last changed
  fired_clear,               \* per label: announcements since a limit ban
                             \* or a resettime last cleared the flags
  last_cycle,                \* the time of the last cycle of this process
                             \* run that ran to its end, or -1
  last_started,              \* the time of the last call of session_cycle
                             \* in this process run, or -1
  handler_errors,            \* exceptions raised by command handlers so far
  ban_session_date,          \* the session_date the player had at line 219
                             \* of the cycle of the last limit-reached ban
  commands,                  \* gambles and admin commands executed so far
  \* websocket_console.py: the monitor and run_websocket_monitor's locals
  needs_reconnect,           \* WebSocketConsoleMonitor.needs_reconnect
  attempt,                   \* run_websocket_monitor: attempt
  consecutive_failures,      \* run_websocket_monitor: consecutive_failures
  current_delay,             \* run_websocket_monitor: current_delay
  conn                       \* the last pass of the reconnect loop

hist == <<last_reset, ban_day, limit_bans, streak, fired_day, fired_clear,
          last_cycle, last_started, handler_errors, ban_session_date,
          commands>>

\* the state of the reconnect loop
wsVars == <<needs_reconnect, attempt, consecutive_failures, current_delay,
            conn>>

\* the state of the session manager and of the command handler
coreVars == <<file, unlimited_play_announced, first_cycle, FREEPLAY_DAYS, now,
              steps, sup, console_running, ev, pre, mem_reset, mem,
              mem_roster, out, hist>>

vars == <<coreVars, wsVars>>

IsFreeplay(t) == Weekday(t) \in FREEPLAY_DAYS

\* mutant: the forcing clears the playtime too
FirstCycleFix_ZeroPlaytime(s, t) ==
  [p \in DOMAIN s |->
     [s[p] EXCEPT !.online = FALSE, !.last_checked = t, !.playtime = 0]]

\* ---- session_cycle, first cycle after startup (lines 64-73) -------------
FirstCycleFix(s, t) ==
  [p \in DOMAIN s |-> [s[p] EXCEPT !.online = FALSE, !.last_checked = t]]

\* mutant: the first cycle takes the snapshot as it is
Loaded_NoFix(s, first, t) == s

\* the table session_cycle works on after its first load (and first save)
Loaded(s, first, t) == IF first THEN FirstCycleFix(s, t) ELSE s

\* ---- daily reset (lines 80-123) -----------------------------------------
NeedsReset(data, t) == data.session_date # Date(t)

UnusedTime(data) == Max(0, PLAY_LIMIT - data.playtime)

\* lines 84-108: the rollover the reset computes
ResetRollover(data, t) ==
  IF YesterdayWeekday(t) < 5
  THEN IF Weekday(t) = 5 THEN 0 ELSE data.rollover_time + UnusedTime(data)
  ELSE data.rollover_time

\* lines 110-122
ResetSession(data, t) ==
  [playtime |-> 0, rollover_time |-> ResetRollover(data, t), online |-> FALSE,
   session_date |-> Date(t), banned |-> FALSE, last_checked |-> t,
   announcements |-> {}]

DailyReset(s, t) ==
  [p \in DOMAIN s |-> IF NeedsReset(s[p], t) THEN ResetSession(s[p], t) ELSE s[p]]

\* players the daily reset is applied to
ResetPlayers(s, t) == {p \in DOMAIN s : NeedsReset(s[p], t)}

\* lines 93-105: the unused-time message (expired / carried over)
UnusedMsgPlayers(s, roster, t) ==
  {p \in ResetPlayers(s, t) \cap roster :
     YesterdayWeekday(t) < 5 /\ UnusedTime(s[p]) > 0}

\* lines 119-123: pardon and "unbanned for the new day" notice
ResetPardons(s, t) == {p \in ResetPlayers(s, t) : s[p].banned}

\* ---- freeplay start / end (lines 125-145) -------------------------------
FreeplayStarts(t, announced) == IsFreeplay(t) /\ ~announced
FreeplayEnds(t, announced) == ~IsFreeplay(t) /\ announced

FreeplayExitReset(s, t) ==
  [p \in DOMAIN s |->
     [s[p] EXCEPT !.playtime = 0, !.rollover_time = 0, !.last_checked = t,
                  !.banned = FALSE, !.announcements = {}]]

\* `sessions` in memory when line 146 is reached
MemBeforeReload(s, t, announced) ==
  IF FreeplayEnds(t, announced)
  THEN FreeplayExitReset(DailyReset(s, t), t)
  ELSE DailyReset(s, t)

\* line 148: load_sessions() rebinds `sessions` to the content of the file,
\* which is what the last save wrote; the table in memory is dropped
Reload(disk, inMemory) == disk

\* ---- roster processing (lines 149-217) ----------------------------------
NewSession(t) ==
  [playtime |-> 0, rollover_time |-> 0, online |-> FALSE,
   session_date |-> Date(t), banned |-> FALSE, last_checked |-> t,
   announcements |-> {}]

\* mutant: the guard compares with the cap instead of the two minutes
ClampDelta_CapAt60(delta) ==
  IF delta > 60 THEN 60 ELSE IF delta < 0 THEN 0 ELSE delta

\* mutant: a negative delta is not raised to 0
ClampDelta_NoFloor(delta) == IF delta > 120 THEN 60 ELSE delta

\* mutant: two minutes exactly are capped too
ClampDelta_StrictAt120(delta) ==
  IF delta >= 120 THEN 60 ELSE IF delta < 0 THEN 0 ELSE delta

\* lines 172-180
ClampDelta(delta) ==
  IF delta > 120 THEN 60 ELSE IF delta < 0 THEN 0 ELSE delta

Entry(s, p, t) == IF p \in DOMAIN s THEN s[p] ELSE NewSession(t)

\* mutant: a banned player is never taken for a ban evader
BanEvading_Never(data, t) == FALSE

\* line 183
BanEvading(data, t) == ~IsFreeplay(t) /\ data.banned

\* lines 169-189: a player who was online in the previous cycle
Continue(data, t) ==
  IF BanEvading(data, t)
  THEN data
  ELSE [data EXCEPT !.playtime = @ + ClampDelta(t - data.last_checked)]

\* lines 190-210: a player who logs in
Login(data, t) ==
  IF ~IsFreeplay(t)
  THEN [data EXCEPT !.playtime = Max(0, @)]
  ELSE data

\* mutant: the delta is charged without looking at was_online
ProcessPlayer_AlwaysCharge(data, t) ==
  [Continue(data, t) EXCEPT !.online = TRUE, !.last_checked = t]

\* lines 165-212 for one roster player
ProcessPlayer(data, t) ==
  [(IF data.online THEN Continue(data, t) ELSE Login(data, t))
     EXCEPT !.online = TRUE, !.last_checked = t]

\* lines 200-210: the message a player who logs in gets
WelcomeKind(data, t) ==
  IF IsFreeplay(t) THEN "unlimited"
  ELSE IF PLAY_LIMIT + data.rollover_time - Max(0, data.playtime) <= 0
          \/ data.banned
       THEN "not_welcome"
       ELSE "welcome"

\* mutant: the sessions of players who are not in the roster are left alone
HandleRoster_KeepOnline(s, roster, t) ==
  [p \in DOMAIN s \cup roster |->
     IF p \in roster THEN ProcessPlayer(Entry(s, p, t), t) ELSE s[p]]

\* lines 149-217
HandleRoster(s, roster, t) ==
  [p \in DOMAIN s \cup roster |->
     IF p \in roster
     THEN ProcessPlayer(Entry(s, p, t), t)
     ELSE [s[p] EXCEPT !.online = FALSE]]

\* ---- enforcement (lines 219-282) ----------------------------------------
Remaining(data) == PLAY_LIMIT + data.rollover_time - data.playtime

\* mutant: the scan takes the largest threshold that matches
FirstLabel_Largest(data, i) ==
  LET c == {k \in i..Len(thresholds) :
              /\ PLAY_LIMIT + data.rollover_time - data.playtime
                   <= thresholds[k][1]
              /\ thresholds[k][2] \notin data.announcements}
  IN IF c = {} THEN "none"
     ELSE thresholds[CHOOSE k \in c : \A j \in c : j <= k][2]

RECURSIVE FirstLabel(_, _)
\* lines 254-262: scan ascending from index i, take the first match
FirstLabel(data, i) ==
  IF i > Len(thresholds) THEN "none"
  ELSE IF Remaining(data) <= thresholds[i][1]
          /\ thresholds[i][2] \notin data.announcements
       THEN thresholds[i][2]
       ELSE FirstLabel(data, i + 1)

FiredLabel(data) == FirstLabel(data, 1)

\* mutant: the announcement is sent and the flag is not set
Announce_FlagNotSet(data) == data

\* lines 255-261
Announce(data) ==
  IF FiredLabel(data) = "none" THEN data
  ELSE [data EXCEPT !.announcements = @ \cup {FiredLabel(data)}]

\* mutant: the limit test without "and not banned"
LimitReached_IgnoreBanned(data) ==
  Max(0, data.playtime) >= PLAY_LIMIT + data.rollover_time

\* mutant: nobody ever reaches the limit
LimitReached_Never(data) == FALSE

\* line 268
LimitReached(data) ==
  Max(0, data.playtime) >= PLAY_LIMIT + data.rollover_time /\ ~data.banned

\* mutant: the ban starts a new session day
BanAndReset_NewSessionDate(data, t) ==
  IF LimitReached(data)
  THEN [data EXCEPT !.banned = TRUE, !.playtime = 0, !.last_checked = t,
                    !.online = FALSE, !.announcements = {},
                    !.session_date = Date(t) + 1]
  ELSE [data EXCEPT !.playtime = Max(0, @)]

\* lines 264-282
BanAndReset(data, t) ==
  IF LimitReached(data)
  THEN [data EXCEPT !.banned = TRUE, !.playtime = 0, !.last_checked = t,
                    !.online = FALSE, !.announcements = {}]
  ELSE [data EXCEPT !.playtime = Max(0, @)]

Enforce(data, t) == BanAndReset(Announce(data), t)

\* mutant: enforcement runs on freeplay days too
EnforceLimits_EveryDay(s, t) == [p \in DOMAIN s |-> Enforce(s[p], t)]

EnforceLimits(s, t) ==
  IF IsFreeplay(t) THEN s ELSE [p \in DOMAIN s |-> Enforce(s[p], t)]

\* ---- one whole cycle -----------------------------------------------------
\* the table at line 219, after the roster was processed
AfterRoster(s, first, roster, t, announced) ==
  HandleRoster(Reload(Loaded(s, first, t),
                      MemBeforeReload(Loaded(s, first, t), t, announced)),
               roster, t)

\* the table save_sessions() writes at line 284
CycleResult(s, first, roster, t, announced) ==
  EnforceLimits(AfterRoster(s, first, roster, t, announced), t)

\* ---- what a cycle sends to the server -----------------------------------
NoOut ==
  [reset |-> {}, ban_limit |-> {}, ban_evade |-> {},
   pardon |-> [p \in Players |-> 0],
   unused_msg |-> {}, unbanned_notice |-> {},
   label |-> [p \in Players |-> "none"],
   welcome |-> [p \in Players |-> "none"], broadcast |-> "none",
   refusal |-> "none", error_reply |-> "none"]

\* lines 121 and 145: "pardon <player>" commands of one cycle
CyclePardons(s, t, announced) ==
  [p \in Players |->
     (IF p \in ResetPardons(s, t) THEN 1 ELSE 0)
     + (IF FreeplayEnds(t, announced) /\ p \in DOMAIN s THEN 1 ELSE 0)]

\* line 185: the ban-evasion ban
EvadeBans(s, roster, t) ==
  {p \in roster \cap DOMAIN s : s[p].online /\ BanEvading(s[p], t)}

\* lines 190-210
Welcomes(s, roster, t) ==
  [p \in Players |->
     IF p \in roster /\ ~Entry(s, p, t).online
     THEN WelcomeKind(Entry(s, p, t), t)
     ELSE "none"]

\* lines 254-262, over every session of the table at line 219
CycleLabels(s, t) ==
  [p \in Players |->
     IF p \in DOMAIN s /\ ~IsFreeplay(t) THEN FiredLabel(s[p]) ELSE "none"]

\* mutant: only players marked online at line 219, those of the roster, are
\* banned
LimitBans_OnlineOnly(s, t) ==
  IF IsFreeplay(t) THEN {}
  ELSE {p \in DOMAIN s : s[p].online /\ LimitReached(Announce(s[p]))}

\* line 275: the limit-reached ban
LimitBans(s, t) ==
  IF IsFreeplay(t) THEN {}
  ELSE {p \in DOMAIN s : LimitReached(Announce(s[p]))}

\* s0: the table after line 73, s1: after line 148, s3: at line 219
CycleOutFrom(s0, s1, s3, roster, t, announced) ==
     [reset |-> ResetPlayers(s0, t),
      ban_limit |-> LimitBans(s3, t),
      ban_evade |-> EvadeBans(s1, roster, t),
      pardon |-> CyclePardons(s0, t, announced),
      unused_msg |-> UnusedMsgPlayers(s0, roster, t),
      unbanned_notice |-> ResetPardons(s0, t),
      label |-> CycleLabels(s3, t),
      welcome |-> Welcomes(s1, roster, t),
      broadcast |-> IF FreeplayStarts(t, announced) THEN "started"
                    ELSE IF FreeplayEnds(t, announced) THEN "ended"
                    ELSE "none",
      refusal |-> "none", error_reply |-> "none"]

CycleOut(s, first, roster, t, announced) ==
  CycleOutFrom(Loaded(s, first, t),
               Reload(Loaded(s, first, t),
                      MemBeforeReload(Loaded(s, first, t), t, announced)),
               AfterRoster(s, first, roster, t, announced),
               roster, t, announced)

\* mutant: the end of the freeplay period does not clear the flag
NextAnnounced_NeverCleared(t, announced) ==
  IF FreeplayStarts(t, announced) THEN TRUE ELSE announced

\* lines 126-133
NextAnnounced(t, announced) ==
  IF FreeplayStarts(t, announced) THEN TRUE
  ELSE IF FreeplayEnds(t, announced) THEN FALSE
  ELSE announced

\* ---- history ---------------------------------------------------------------
SessionDateOf(s, p) == IF p \in DOMAIN s THEN s[p].session_date ELSE -1
BannedIn(s, p) == p \in DOMAIN s /\ s[p].banned

NoCount == [l \in Labels |-> 0]
NoStreak == [k |-> 0, base |-> 0, sum |-> 0]

\* one more announcement of the labels in o.label
Count(c, p, o) ==
  [l \in Labels |-> c[l] + (IF o.label[p] = l THEN 1 ELSE 0)]

\* the cycle at time t charges p the whole delta: p is read as online, is
\* in the roster, not banned, on a quota day with no daily reset due, the
\* delta is within [0, 120) and playtime stays below the limit
Charging(s, first, roster, t, p) ==
  /\ ~first /\ p \in DOMAIN s /\ p \in roster
  /\ s[p].online /\ ~s[p].banned
  /\ ~IsFreeplay(t) /\ s[p].session_date = Date(t)
  /\ 0 <= t - s[p].last_checked /\ t - s[p].last_checked < 120
  /\ s[p].playtime + (t - s[p].last_checked) < PLAY_LIMIT + s[p].rollover_time

History(op, who, s, s2, o, first, roster, t) ==
  /\ last_reset' = [p \in Players |->
                      IF p \in o.reset THEN Date(t) ELSE last_reset[p]]
  /\ ban_day' = [p \in Players |->
                   IF p \in o.ban_limit THEN Date(t) ELSE ban_day[p]]
  /\ limit_bans' = [p \in Players |->
                      (IF BannedIn(s, p) THEN limit_bans[p] ELSE 0)
                      + (IF p \in o.ban_limit THEN 1 ELSE 0)]
  /\ streak' = [p \in Players |->
                  IF op = "cycle" /\ Charging(s, first, roster, t, p)
                  THEN [k |-> streak[p].k + 1,
                        base |-> IF streak[p].k = 0 THEN s[p].playtime
                                 ELSE streak[p].base,
                        sum |-> streak[p].sum + (t - s[p].last_checked)]
                  ELSE NoStreak]
  /\ fired_day' = [p \in Players |->
                     Count(IF SessionDateOf(s, p) = SessionDateOf(s2, p)
                           THEN fired_day[p] ELSE NoCount, p, o)]
  /\ fired_clear' = [p \in Players |->
                       IF p \in o.ban_limit \/ (op = "resettime" /\ who = p)
                          \/ SessionDateOf(s, p) # SessionDateOf(s2, p)
                       THEN NoCount
                       ELSE Count(fired_clear[p], p, o)]
  /\ last_cycle' = IF op \in {"cycle", "race"} THEN t ELSE last_cycle
  /\ last_started' = IF op \in {"cycle", "race", "fetch_failed"} THEN t
                     ELSE last_started
  /\ handler_errors' = handler_errors + (IF op = "handler_error" THEN 1 ELSE 0)
  /\ ban_session_date' = [p \in Players |->
                            IF p \in o.ban_limit
                            THEN mem_roster'[p].session_date
                            ELSE ban_session_date[p]]
  /\ commands' = commands
                  + (IF op \in {"gamble", "addtime", "resettime", "unban",
                                "race"}
                     THEN 1 ELSE 0)

NoEv ==
  [op |-> "init", roster |-> {}, who |-> "none", first |-> FALSE,
   announced |-> FALSE, t0 |-> 0, prior_reset |-> [p \in Players |-> -1],
   bet |-> 0, mult |-> 0, won |-> FALSE, accepted |-> FALSE, minutes |-> 0,
   outage |-> FALSE, prev_cycle |-> -1, point |-> "none",
   prev_started |-> -1, roll |-> -1, cmd |-> "none", issuer |-> "none",
   propagated |-> FALSE]

\* ---- the cycle -----------------------------------------------------------
\* the gaps between two cycles of the inner loop of managed_session_manager
\* the model explores: the clock set back, the regular pause, two minutes,
\* two minutes and a second
Gaps == {-30, 90, 120, 121}
\* main.py lines 88-92: the health check reported the server offline and the
\* supervisor slept, for a day in all, before it called session_cycle again
OutageGap == DaySeconds
Rosters == {{}, {"p1"}, {"p1", "p2"}}

CycleAt(roster, gap, outage) ==
  LET t == now + gap
      s0 == Loaded(file, first_cycle, t)
  IN /\ steps < MaxSteps
     /\ sup # "dead"
     /\ sup' = "inner"
     /\ steps' = steps + 1
     /\ now' = t
     /\ file' = CycleResult(file, first_cycle, roster, t, unlimited_play_announced)
     /\ mem_reset' = DailyReset(s0, t)
     /\ mem' = MemBeforeReload(s0, t, unlimited_play_announced)
     /\ mem_roster' = AfterRoster(file, first_cycle, roster, t,
                                  unlimited_play_announced)
     /\ first_cycle' = FALSE
     /\ unlimited_play_announced' = NextAnnounced(t, unlimited_play_announced)
     /\ out' = CycleOut(file, first_cycle, roster, t, unlimited_play_announced)
     /\ pre' = file
     /\ ev' = [NoEv EXCEPT !.op = "cycle", !.roster = roster,
                           !.first = first_cycle,
                           !.announced = unlimited_play_announced,
                           !.t0 = now, !.prior_reset = last_reset,
                           !.outage = outage, !.prev_cycle = last_cycle,
                           !.prev_started = last_started]
     /\ History("cycle", "none", file, file', out', first_cycle, roster, t)
     /\ UNCHANGED <<FREEPLAY_DAYS, console_running>>
     /\ UNCHANGED wsVars

\* the next cycle of the inner loop (main.py lines 80-85)
Cycle(roster, gap) == CycleAt(roster, gap, FALSE)

\* the first cycle after the server was unreachable (main.py lines 75-92)
Resume(roster) == CycleAt(roster, OutageGap, TRUE)

\* ---- chat commands (command_handler.py) ---------------------------------
\* gambling_config multipliers, in 1/10000
GambleTable == {10500, 11000, 12500, 15000, 20000, 30000, 50000, 100000}

Abs(x) == IF x < 0 THEN -x ELSE x

\* lines 661-666: abs(m - multiplier) < 0.001
MatchingMultipliers(mult) == {m \in GambleTable : Abs(m - mult) < 10}

\* mutant: the bet is not compared with the remaining time
GambleAccepted_NoBetCap(s, p, bet, mult, t) ==
  /\ ~(Weekday(t) >= 5)
  /\ p \in DOMAIN s
  /\ ~(Remaining(s[p]) < 5 * 60)
  /\ ~(bet < 5)
  /\ MatchingMultipliers(mult) # {}

\* lines 551-675: every check passed, the draw is made
GambleAccepted(s, p, bet, mult, t) ==
  /\ ~(Weekday(t) >= 5)
  /\ p \in DOMAIN s
  /\ ~(Remaining(s[p]) < 5 * 60)
  /\ ~(bet * 60 > Remaining(s[p]))
  /\ ~(bet < 5)
  /\ MatchingMultipliers(mult) # {}

\* the table entry lines 662-666 select (entries differ by more than the
\* tolerance, so at most one matches)
MatchedMultiplier(mult) == CHOOSE m \in MatchingMultipliers(mult) : TRUE

\* gambling_config "p", in 1/10^7 (lines 35-42)
WinChance(m) ==
  CASE m = 10500 -> 8571428 [] m = 11000 -> 8181818 [] m = 12500 -> 7200000
    [] m = 15000 -> 6000000 [] m = 20000 -> 4500000 [] m = 30000 -> 3000000
    [] m = 50000 -> 1800000 [] m = 100000 -> 900000

\* no draw is made
NoDraw == -1
\* the values of random.random() the model explores, in 1/10^7
Rolls == {4499999, 4500000}

\* lines 677-680
GambleWon(mult, roll) == roll # NoDraw /\ roll < WinChance(MatchedMultiplier(mult))

\* line 684: int(bet_seconds * (multiplier - 1))
Winnings(bet, mult) == (bet * 60 * (mult - 10000)) \div 10000

\* lines 682-686
GambleWin(data, bet, mult) ==
  [data EXCEPT !.rollover_time = @ + Winnings(bet, mult)]

\* mutant: the whole bet is taken from the rollover
GambleLoss_RolloverOnly(data, bet) ==
  [data EXCEPT !.rollover_time = @ - bet * 60]

\* lines 719-728
GambleLoss(data, bet) ==
  IF data.rollover_time >= bet * 60
  THEN [data EXCEPT !.rollover_time = @ - bet * 60]
  ELSE [data EXCEPT !.rollover_time = 0,
                    !.playtime = @ + (bet * 60 - data.rollover_time)]

GambleResult(s, p, bet, mult, won, t) ==
  IF GambleAccepted(s, p, bet, mult, t)
  THEN [s EXCEPT ![p] = IF won THEN GambleWin(@, bet, mult)
                        ELSE GambleLoss(@, bet)]
  ELSE s

\* lines 421-430
AddTimeResult(s, p, minutes) ==
  IF p \in DOMAIN s
  THEN [s EXCEPT ![p].rollover_time = @ + minutes * 60]
  ELSE s

\* mutant: the reset keeps the rollover
ResetTimeResult_KeepRollover(s, p) ==
  IF p \in DOMAIN s
  THEN [s EXCEPT ![p].playtime = 0, ![p].banned = FALSE,
                 ![p].announcements = {}]
  ELSE s

\* lines 477-486
ResetTimeResult(s, p) ==
  IF p \in DOMAIN s
  THEN [s EXCEPT ![p].playtime = 0, ![p].rollover_time = 0,
                 ![p].banned = FALSE, ![p].announcements = {}]
  ELSE s

\* lines 377-381
UnbanResult(s, p) ==
  IF p \in DOMAIN s THEN [s EXCEPT ![p].banned = FALSE] ELSE s

\* lines 384 and 489: the pardon an admin command sends
CommandPardon(s, p) ==
  [NoOut EXCEPT !.pardon = [q \in Players |->
                              IF q = p /\ p \in DOMAIN s THEN 1 ELSE 0]]

Command(op, p, s2, o) ==
  /\ steps < MaxSteps
  /\ console_running
  /\ steps' = steps + 1
  /\ file' = s2
  /\ out' = o
  /\ pre' = file
  /\ mem_reset' = file
  /\ mem' = file
  /\ mem_roster' = file
  /\ History(op, p, file, s2, o, first_cycle, {}, now)
  /\ UNCHANGED <<unlimited_play_announced, first_cycle, FREEPLAY_DAYS, now,
                 sup, console_running>>
  /\ UNCHANGED wsVars

\* `!gamble bet mult` typed by p; random.random() returns roll when line 679
\* is reached
Gamble(p, bet, mult, roll) ==
  /\ roll \in (IF GambleAccepted(file, p, bet, mult, now)
               THEN Rolls ELSE {NoDraw})
  /\ Command("gamble", p,
             GambleResult(file, p, bet, mult, GambleWon(mult, roll), now), NoOut)
  /\ ev' = [NoEv EXCEPT !.op = "gamble", !.who = p, !.bet = bet,
                        !.mult = mult, !.roll = roll,
                        !.won = GambleWon(mult, roll),
                        !.accepted = GambleAccepted(file, p, bet, mult, now)]

AddTime(p, minutes) ==
  /\ Command("addtime", p, AddTimeResult(file, p, minutes), NoOut)
  /\ ev' = [NoEv EXCEPT !.op = "addtime", !.who = p, !.minutes = minutes]

ResetTime(p) ==
  /\ Command("resettime", p, ResetTimeResult(file, p), CommandPardon(file, p))
  /\ ev' = [NoEv EXCEPT !.op = "resettime", !.who = p]

Unban(p) ==
  /\ Command("unban", p, UnbanResult(file, p), CommandPardon(file, p))
  /\ ev' = [NoEv EXCEPT !.op = "unban", !.who = p]

\* ---- dispatch and authorization (handle_command, is_admin) ---------------
\* the content of admins.json as load_admins returns it
Admins == {"admin"}

\* mutant: everybody passes the admin check
is_admin_Everyone(username) == TRUE

\* lines 130-132
is_admin(username) == username \in Admins

\* lines 67-81: the registered commands
Registered ==
  {"help", "playtime", "rollover", "stats", "rules", "gamble", "gambaodds",
   "unban", "addtime", "resettime", "adminhelp", "version"}

\* the handlers that start with the is_admin check (lines 342, 365, 404, 465)
AdminOnly == {"unban", "addtime", "resettime", "adminhelp"}

\* handle_command sends "Unknown command" (lines 124-128) or the handler
\* sends "You don't have permission" (lines 343-346, 366-369, 405-408,
\* 466-469) and returns
Refused(username, cmd) ==
  cmd \notin Registered \/ (cmd \in AdminOnly /\ ~is_admin(username))

\* sessions.json after `!cmd p minutes` typed by username
Dispatched(username, cmd, s, p, minutes) ==
  IF Refused(username, cmd) THEN s
  ELSE IF cmd = "unban" THEN UnbanResult(s, p)
  ELSE IF cmd = "addtime" THEN AddTimeResult(s, p, minutes)
  ELSE IF cmd = "resettime" THEN ResetTimeResult(s, p)
  ELSE s

\* what `!cmd p minutes` typed by username sends to the server
DispatchedOut(username, cmd, s, p) ==
  IF Refused(username, cmd) THEN [NoOut EXCEPT !.refusal = username]
  ELSE IF cmd \in {"unban", "resettime"} THEN CommandPardon(s, p)
  ELSE NoOut

\* a chat line `!cmd p minutes` of a player
Chat(username, cmd, p, minutes) ==
  /\ Command("chat", p, Dispatched(username, cmd, file, p, minutes),
             DispatchedOut(username, cmd, file, p))
  /\ ev' = [NoEv EXCEPT !.op = "chat", !.who = p, !.cmd = cmd,
                        !.issuer = username, !.minutes = minutes]

\* lines 118-123: the handler raised; handle_command catches the exception
\* and sends the error reply with send_command, which is not guarded: when
\* the send raises too, the exception leaves handle_command
HandleCommandRaises(sendFails) == sendFails

\* mutant: on_message without its `except Exception`
OnMessageRaises_NoCatch(propagated) == propagated

\* websocket_console.py lines 29, 103-106: on_message catches every
\* exception of process_console_line
OnMessageRaises(propagated) == FALSE

\* a registered handler raises before it saves (`!playtime` on a session
\* without a field it reads, a ledger file that is not JSON, a send that
\* fails); sendFails: the connection does not take the error reply either
HandlerError(username, sendFails) ==
  /\ steps < MaxSteps
  /\ console_running
  /\ steps' = steps + 1
  /\ console_running' = ~OnMessageRaises(HandleCommandRaises(sendFails))
  /\ out' = [NoOut EXCEPT !.error_reply =
                            IF sendFails THEN "none" ELSE username]
  /\ ev' = [NoEv EXCEPT !.op = "handler_error", !.issuer = username,
                        !.propagated = HandleCommandRaises(sendFails)]
  /\ pre' = file
  /\ mem_reset' = file
  /\ mem' = file
  /\ mem_roster' = file
  /\ History("handler_error", username, file, file, out', first_cycle, {}, now)
  /\ UNCHANGED <<file, unlimited_play_announced, first_cycle, FREEPLAY_DAYS,
                 now, sup>>
  /\ UNCHANGED wsVars

\* ---- failures seen by the supervisor (main.py lines 68-92) ---------------
\* get_online_players() raises at line 76 of session_cycle: the first load,
\* and in the first cycle the forcing and its save (lines 62-73), are done;
\* the exception is caught at main.py line 86
RosterFetchFails(gap) ==
  LET t == now + gap
  IN /\ steps < MaxSteps
     /\ sup # "dead"
     /\ sup' = "outer"
     /\ steps' = steps + 1
     /\ now' = t
     /\ file' = Loaded(file, first_cycle, t)
     /\ first_cycle' = FALSE
     /\ out' = NoOut
     /\ pre' = file
     /\ mem_reset' = file'
     /\ mem' = file'
     /\ mem_roster' = file'
     /\ ev' = [NoEv EXCEPT !.op = "fetch_failed", !.first = first_cycle,
                           !.announced = unlimited_play_announced,
                           !.t0 = now, !.prev_cycle = last_cycle,
                           !.prev_started = last_started]
     /\ History("fetch_failed", "none", file, file', out', first_cycle, {}, t)
     /\ UNCHANGED <<unlimited_play_announced, FREEPLAY_DAYS, console_running>>
     /\ UNCHANGED wsVars

\* server_is_online() raises (exa.get_servers() fails): at line 80 the
\* exception is caught at line 86 and the outer loop goes on; at line 75 it
\* is not inside the try and ends managed_session_manager
HealthCheckFails ==
  /\ steps < MaxSteps
  /\ sup # "dead"
  /\ sup' = IF sup = "inner" THEN "outer" ELSE "dead"
  /\ steps' = steps + 1
  /\ out' = NoOut
  /\ ev' = [NoEv EXCEPT !.op = "check_failed"]
  /\ pre' = file
  /\ mem_reset' = file
  /\ mem' = file
  /\ mem_roster' = file
  /\ History("check_failed", "none", file, file, out', first_cycle, {}, now)
  /\ UNCHANGED <<file, unlimited_play_announced, first_cycle, FREEPLAY_DAYS,
                 now, console_running>>
  /\ UNCHANGED wsVars

\* the requests `!gamble <minutes> <multiplier>` the model explores: a table
\* multiplier, one within the tolerance of a table multiplier, one far from
\* the table, a bet below the minimum, a bet above what a day leaves, a bet
\* of the whole base limit
GambleRequests ==
  { <<5, 20000>>, <<5, 19995>>, <<5, 25000>>, <<3, 20000>>, <<200, 20000>>,
    <<180, 20000>> }

\* ---- a command of the console process during a cycle ---------------------
\* websocket_console.py runs the command handler in a process of its own;
\* the two processes share sessions.json and nothing else
RacePoints == {"before_reload", "after_reload"}

\* sessions.json as line 148 reads it: cmd_addtime completed its load,
\* change and save after line 72 and before line 148, or has not run yet
DiskAtReload(s0, p, minutes, point) ==
  IF point = "before_reload" THEN AddTimeResult(s0, p, minutes) ELSE s0

\* a cycle during which cmd_addtime(p, minutes) completes at `point`; when
\* it completes after line 148 and before line 284, the console process
\* has written AddTimeResult(s0, p, minutes) and save_sessions() of line 284
\* replaces the file by the table the cycle holds in memory
CycleRacingAddTime(roster, gap, p, minutes, point) ==
  LET t == now + gap
      s0 == Loaded(file, first_cycle, t)
      s1 == Reload(DiskAtReload(s0, p, minutes, point),
                   MemBeforeReload(s0, t, unlimited_play_announced))
      s3 == HandleRoster(s1, roster, t)
  IN /\ steps < MaxSteps
     /\ sup # "dead"
     /\ console_running
     /\ sup' = "inner"
     /\ steps' = steps + 1
     /\ now' = t
     /\ file' = EnforceLimits(s3, t)
     /\ mem_reset' = DailyReset(s0, t)
     /\ mem' = MemBeforeReload(s0, t, unlimited_play_announced)
     /\ mem_roster' = s3
     /\ first_cycle' = FALSE
     /\ unlimited_play_announced' = NextAnnounced(t, unlimited_play_announced)
     /\ out' = CycleOutFrom(s0, s1, s3, roster, t, unlimited_play_announced)
     /\ pre' = file
     /\ ev' = [NoEv EXCEPT !.op = "race", !.roster = roster,
                           !.first = first_cycle,
                           !.announced = unlimited_play_announced,
                           !.t0 = now, !.prior_reset = last_reset,
                           !.prev_cycle = last_cycle, !.who = p,
                           !.prev_started = last_started,
                           !.minutes = minutes, !.point = point]
     /\ History("race", p, file, file', out', first_cycle, roster, t)
     /\ UNCHANGED <<FREEPLAY_DAYS, console_running>>
     /\ UNCHANGED wsVars

\* ---- the reconnect loop (websocket_console.py) ---------------------------
\* run_websocket_monitor lines 219-220
base_delay == 5
max_delay == 300

\* the largest value of `attempt` the model follows
MaxAttempt == 12

Min(a, b) == IF a <= b THEN a ELSE b

NoConn ==
  [outcome |-> "none", stable |-> FALSE, flag_set |-> FALSE,
   flag_at_check |-> FALSE, slept |-> 0, attempt0 |-> 0, failures0 |-> 0]

\* on_message lines 46-68: every "disconnected" message sets needs_reconnect
\* and closes the socket
OnDisconnected(flag) == TRUE

\* on_close lines 112-121: called when the socket closes, before
\* run_forever() and connect() return; it clears needs_reconnect
OnClose(flag) == FALSE

\* monitor.needs_reconnect when connect() has returned (line 245)
FlagAtCheck(flag, outcome) ==
  OnClose(IF outcome = "server" THEN OnDisconnected(flag) ELSE flag)

\* mutant: the backoff without its cap
Backoff_NoCap(a) == base_delay * (2 ^ Min(a, 10))

\* line 253
Backoff(a) == Min(base_delay * (2 ^ Min(a, 10)), max_delay)

\* line 269
RetryDelay(a) == Min(base_delay * (2 ^ a), max_delay)

\* lines 238-242: a connection that lasted more than 30 s resets the counters
AfterStable(stable, v) == IF stable THEN 0 ELSE v

\* one pass of the `while True` of run_websocket_monitor (lines 225-261) in
\* which connect() returns: the connection closed with no word from the
\* server (outcome "unexpected") or after a "disconnected" message of the
\* server (outcome "server"); `stable` says whether it lasted more than 30 s
Reconnect(outcome, stable) ==
  LET flag == FlagAtCheck(needs_reconnect, outcome)
      a0 == AfterStable(stable, attempt)
      f0 == AfterStable(stable, consecutive_failures)
  IN /\ attempt < MaxAttempt
     /\ needs_reconnect' = flag
     /\ IF flag
        THEN /\ attempt' = a0
             /\ consecutive_failures' = f0
             /\ current_delay' = base_delay
        ELSE /\ attempt' = a0 + 1
             /\ consecutive_failures' = f0 + 1
             /\ current_delay' = IF f0 + 1 > 5 THEN max_delay
                                 ELSE Backoff(a0 + 1)
     /\ conn' = [outcome |-> outcome, stable |-> stable,
                 flag_set |-> outcome = "server", flag_at_check |-> flag,
                 slept |-> current_delay', attempt0 |-> attempt,
                 failures0 |-> consecutive_failures]
     /\ UNCHANGED coreVars

\* lines 266-271: connect() raised
ConnectRaises ==
  /\ attempt < MaxAttempt
  /\ attempt' = attempt + 1
  /\ current_delay' = RetryDelay(attempt + 1)
  /\ conn' = [outcome |-> "exception", stable |-> FALSE, flag_set |-> FALSE,
              flag_at_check |-> needs_reconnect, slept |-> current_delay',
              attempt0 |-> attempt, failures0 |-> consecutive_failures]
  /\ UNCHANGED <<needs_reconnect, consecutive_failures>>
  /\ UNCHANGED coreVars

\* ---- initial states ------------------------------------------------------
\* the process starts at 23:57:20 of a Thursday, a Friday or a Sunday, with
\* the shipped calendar or one that adds Friday
Starts ==
  { <<3 * DaySeconds + 86240, {5, 6}>>, <<4 * DaySeconds + 86240, {5, 6}>>,
    <<6 * DaySeconds + 86240, {5, 6}>>, <<3 * DaySeconds + 86240, {4, 5, 6}>> }

Session(pt, ro, on, sd, ba, lc, an) ==
  [playtime |-> pt, rollover_time |-> ro, online |-> on, session_date |-> sd,
   banned |-> ba, last_checked |-> lc, announcements |-> an]

\* snapshots sessions.json can hold when the process starts at time t
InitLedgers(t) ==
  { <<>>,
    [p \in {"p1"} |->
       Session(10790, 0, TRUE, Date(t), FALSE, t - 60, {})],
    [p \in {"p1", "p2"} |->
       IF p = "p1"
       THEN Session(0, 600, TRUE, Date(t) - 1, TRUE, t - 7200, {})
       ELSE Session(3600, 0, TRUE, Date(t) - 1, FALSE, t - 60, {})],
    [p \in {"p1"} |->
       Session(12000, 0, FALSE, Date(t) - 2, FALSE, t - 7200, {"30min"})] }

Init ==
  /\ \E st \in Starts :
       /\ now = st[1]
       /\ FREEPLAY_DAYS = st[2]
       /\ file \in InitLedgers(st[1])
  /\ unlimited_play_announced = FALSE
  /\ first_cycle = TRUE
  /\ steps = 0
  /\ ev = NoEv
  /\ pre = file
  /\ mem_reset = file
  /\ mem = file
  /\ mem_roster = file
  /\ out = NoOut
  /\ last_reset = [p \in Players |-> -1]
  /\ ban_day = [p \in Players |-> -1]
  /\ limit_bans = [p \in Players |-> 0]
  /\ streak = [p \in Players |-> NoStreak]
  /\ fired_day = [p \in Players |-> NoCount]
  /\ fired_clear = [p \in Players |-> NoCount]
  /\ last_cycle = -1
  /\ last_started = -1
  /\ handler_errors = 0
  /\ sup = "outer"
  /\ console_running = TRUE
  /\ ban_session_date = [p \in Players |-> -1]
  /\ commands = 0
  /\ needs_reconnect = FALSE
  /\ attempt = 0
  /\ consecutive_failures = 0
  /\ current_delay = base_delay
  /\ conn = NoConn

Next ==
  \/ \E roster \in Rosters, gap \in Gaps : Cycle(roster, gap)
  \/ \E roster \in Rosters : Resume(roster)
  \/ \E point \in RacePoints : CycleRacingAddTime({"p1"}, 90, "p1", 30, point)
  \/ \E req \in GambleRequests, roll \in Rolls \cup {NoDraw} :
       Gamble("p1", req[1], req[2], roll)
  \/ \E minutes \in {30, -200} : AddTime("p1", minutes)
  \/ ResetTime("p1")
  \/ Unban("p1")
  \/ \E cmd \in {"unban", "addtime", "resettime", "adminhelp", "frobnicate"} :
       Chat("p2", cmd, "p1", 30)
  \/ \E sendFails \in BOOLEAN : HandlerError("p1", sendFails)
  \/ RosterFetchFails(90)
  \/ HealthCheckFails

Spec == Init /\ [][Next]_vars

\* the console process alone: run_websocket_monitor started on an empty
\* ledger
WsInit ==
  /\ Init
  /\ file = <<>>
  /\ now = 3 * DaySeconds + 86240
  /\ FREEPLAY_DAYS = {5, 6}

WsNext ==
  \/ \E outcome \in {"unexpected", "server"}, stable \in BOOLEAN :
       Reconnect(outcome, stable)
  \/ ConnectRaises

WsSpec == WsInit /\ [][WsNext]_vars

\* ==== properties =============================================================
CycleDone == ev.op = "cycle"

\* a cycle, alone or with a command of the console process completing in it
AnyCycle == ev.op \in {"cycle", "race"}

\* the flag session_cycle reads at line 166 for a roster player
WasOnline(p) == ~ev.first /\ p \in DOMAIN pre /\ pre[p].online

PrePlaytime(p) == IF p \in DOMAIN pre THEN pre[p].playtime ELSE 0

\* the daily reset found a quota day following a quota day
QuotaDayAfterQuotaDay ==
  /\ Weekday(now) \notin FREEPLAY_DAYS
  /\ YesterdayWeekday(now) \notin FREEPLAY_DAYS

\* C1: on a quota day a non-banned player who is read as online and is in
\* the roster of k consecutive cycles with deltas d_1..d_k in [0, 120), with
\* no daily reset, ban or command in between and playtime below the limit,
\* has gained exactly d_1 + ... + d_k of playtime after those k cycles.
C1_ExactAccrual ==
  \A p \in Players :
    streak[p].k > 0 =>
      p \in DOMAIN file /\ file[p].playtime = streak[p].base + streak[p].sum

C1_Witness ==
  \E p \in Players :
    streak[p].k >= 2 /\ streak[p].sum >= 180 /\ CycleDone /\ p \in ev.roster

\* C2 as stated: a roster player who is not read as online has the same
\* playtime after the cycle, whatever the gap since last_checked; a player
\* without an entry gets one with zero playtime and rollover.
C2_LoginKeepsPlaytime ==
  CycleDone =>
    \A p \in ev.roster :
      ~WasOnline(p) =>
        /\ p \in DOMAIN file
        /\ file[p].playtime = PrePlaytime(p)
        /\ p \notin DOMAIN pre => file[p].rollover_time = 0

\* C2 amended: the cycle never charges such a player: playtime is unchanged,
\* unless limit enforcement bans the player in this cycle, which sets it to
\* 0; a new entry has zero playtime and rollover and took the login branch.
C2_LoginNeverCharged ==
  CycleDone =>
    \A p \in ev.roster :
      ~WasOnline(p) =>
        /\ p \in DOMAIN file
        /\ file[p].playtime = IF p \in out.ban_limit THEN 0 ELSE PrePlaytime(p)
        /\ out.welcome[p] # "none"
        /\ p \notin DOMAIN pre =>
             file[p].rollover_time = 0 /\ file[p].playtime = 0

\* a known player comes back after a gap of a day: nothing is charged
C2_Witness ==
  /\ CycleDone /\ ~ev.first /\ "p2" \in ev.roster
  /\ "p2" \in DOMAIN pre /\ ~pre["p2"].online
  /\ now - pre["p2"].last_checked >= DaySeconds
  /\ file["p2"].playtime = pre["p2"].playtime /\ file["p2"].playtime > 0

\* what C3 says of the cycle that bans and of the count of bans
BanFiresOnce ==
  /\ \A p \in out.ban_limit :
       /\ AnyCycle /\ ~IsFreeplay(now)
       /\ file[p].banned /\ file[p].playtime = 0 /\ limit_bans[p] = 1
  /\ \A p \in DOMAIN file : file[p].banned => limit_bans[p] <= 1
  /\ \A p \in DOMAIN pre : pre[p].banned => p \notin out.ban_limit

C4_OncePerSessionDay ==
  \A p \in Players, l \in Labels : fired_day[p][l] <= 1

\* C4 amended: no label is announced twice for a player while the player's
\* session_date stays the same and neither a limit-reached ban nor an admin
\* resettime has cleared the player's flags in between.
C4_OncePerFlagPeriod ==
  \A p \in Players, l \in Labels : fired_clear[p][l] <= 1

\* a cycle in which a label's threshold is satisfied again and the label,
\* already announced, is not announced again
C4_Witness ==
  \E p \in DOMAIN file, l \in Labels :
    /\ CycleDone /\ ~IsFreeplay(now) /\ p \in DOMAIN pre
    /\ fired_clear[p][l] = 1 /\ l \in pre[p].announcements
    /\ l \in file[p].announcements /\ out.label[p] # l
    /\ Remaining(file[p]) <= 60

\* C5: a known player whose session_date differs from today when a cycle
\* starts has, in the ledger saved at the end of that cycle, session_date =
\* today, playtime = 0 and last_checked = the cycle's now.
C5_ResetIsSaved ==
  CycleDone =>
    \A p \in DOMAIN pre :
      pre[p].session_date # Date(now) =>
        /\ file[p].session_date = Date(now)
        /\ file[p].playtime = 0
        /\ file[p].last_checked = now

\* C6: once a cycle has applied the daily reset to a player, no later cycle
\* of the same calendar day applies it to that player again.
C6_ResetOncePerDay ==
  CycleDone => \A p \in out.reset : ev.prior_reset[p] # Date(now)

\* C7: the daily reset of a quota day that follows a quota day raises the
\* player's rollover in the saved ledger by max(0, PLAY_LIMIT - playtime
\* held before the reset).
C7_RolloverGranted ==
  CycleDone /\ QuotaDayAfterQuotaDay =>
    \A p \in out.reset :
      file[p].rollover_time
        = pre[p].rollover_time + Max(0, PLAY_LIMIT - pre[p].playtime)

\* C8: a player banned by limit enforcement yesterday, a quota day, for
\* having used the whole quota, is granted no rollover by today's daily
\* reset, today being a quota day too.
C8_NoGrantAfterFullUse ==
  CycleDone /\ QuotaDayAfterQuotaDay =>
    \A p \in out.reset :
      ban_day[p] = Date(now) - 1 /\ pre[p].banned =>
        mem_reset[p].rollover_time = pre[p].rollover_time

\* C9: whatever the calendar, the daily reset leaves the rollover as it was
\* when yesterday was a freeplay day of that calendar.
C9_FreeplayYesterdayKeepsRollover ==
  CycleDone /\ YesterdayWeekday(now) \in FREEPLAY_DAYS =>
    \A p \in out.reset :
      mem_reset[p].rollover_time = pre[p].rollover_time

\* C10: after the first cycle of the week's first freeplay day every known
\* player's rollover in the saved ledger is 0.
C10_WeekendForfeitsRollover ==
  ( /\ CycleDone
    /\ Date(ev.t0) < Date(now)
    /\ Weekday(now) \in FREEPLAY_DAYS
    /\ YesterdayWeekday(now) \notin FREEPLAY_DAYS )
  => \A p \in DOMAIN file : file[p].rollover_time = 0

\* C11: when the daily reset is applied to a banned player, exactly one
\* pardon is issued for the player and the player is not banned in the
\* ledger saved at the end of that cycle.
C11_ResetPardonsAndUnbans ==
  CycleDone =>
    \A p \in out.reset :
      pre[p].banned => out.pardon[p] = 1 /\ ~file[p].banned

\* C12: whatever cycles, gambles and admin commands were interleaved, no
\* session of the saved ledger has a negative playtime.
C12_PlaytimeNonNegative ==
  \A p \in DOMAIN file : file[p].playtime >= 0 /\ mem_roster[p].playtime >= 0

\* the clock was set back under a player who stays online with playtime 0
C12_Witness ==
  /\ CycleDone /\ "p1" \in ev.roster /\ WasOnline("p1")
  /\ now < pre["p1"].last_checked /\ pre["p1"].playtime = 0
  /\ file["p1"].playtime = 0 /\ IsFreeplay(now)

\* C13: whatever cycles, gambles and admin commands (addtime with any
\* number of minutes) were interleaved, no session of the ledger saved at
\* the end of a cycle has a negative rollover.
C13_RolloverNonNegative ==
  CycleDone => \A p \in DOMAIN file : file[p].rollover_time >= 0

\* the charge C14 states, as a function of delta
C14_Charge(delta) ==
  IF delta < 0 THEN 0 ELSE IF delta <= 120 THEN delta ELSE 60

\* C14: for a non-banned roster player who is read as online, the cycle adds
\* to playtime 0 when delta < 0, delta when 0 <= delta <= 120 and 60 when
\* delta > 120 (delta = now - last_checked); no cycle adds more than 120 s
\* to any session.
C14_ChargeByDelta ==
  CycleDone =>
    /\ \A p \in ev.roster :
         WasOnline(p) /\ ~pre[p].banned =>
           mem_roster[p].playtime
             = pre[p].playtime + C14_Charge(now - pre[p].last_checked)
    /\ \A p \in DOMAIN file :
         /\ mem_roster[p].playtime - PrePlaytime(p) <= 120
         /\ file[p].playtime - PrePlaytime(p) <= 120

\* a delta of two minutes exactly is charged in full
C14_Witness ==
  /\ CycleDone /\ "p1" \in ev.roster /\ WasOnline("p1")
  /\ ~pre["p1"].banned /\ now - pre["p1"].last_checked = 120
  /\ mem_roster["p1"].playtime = pre["p1"].playtime + 120

\* C15 as stated: on a quota day every roster player the ledger holds as
\* banned and online gets a ban command and keeps the same playtime.
C15_BannedOnlineIsRebanned ==
  CycleDone /\ ~IsFreeplay(now) =>
    \A p \in ev.roster \cap DOMAIN pre :
      pre[p].banned /\ pre[p].online =>
        p \in out.ban_evade /\ file[p].playtime = pre[p].playtime

\* C15 amended: ... every banned roster player who is read as online by the
\* cycle, which no player is in the first cycle of a process run, gets a ban
\* command and keeps the same playtime; the first cycle issues no such ban.
C15_BanEvaderIsRebanned ==
  CycleDone =>
    /\ ~IsFreeplay(now) =>
         \A p \in ev.roster \cap DOMAIN pre :
           pre[p].banned /\ WasOnline(p) =>
             /\ p \in out.ban_evade
             /\ mem_roster[p].playtime = pre[p].playtime
             /\ file[p].playtime = pre[p].playtime
    /\ ev.first => out.ban_evade = {}

C15_Witness ==
  /\ CycleDone /\ ~IsFreeplay(now) /\ "p1" \in out.ban_evade
  /\ pre["p1"].banned /\ WasOnline("p1") /\ now > pre["p1"].last_checked
  /\ file["p1"].playtime = pre["p1"].playtime

\* C16: in the first cycle of a process run no session's playtime increases,
\* whatever online flags and last_checked the snapshot holds: every roster
\* player takes the login branch; the first cycle is the only one in which
\* the sessions are forced offline.
C16_FirstCycleChargesNothing ==
  AnyCycle =>
    /\ ~first_cycle
    /\ ev.first <=> ev.prev_started = -1
    /\ ev.first =>
         /\ \A p \in DOMAIN pre :
              /\ mem_roster[p].playtime <= pre[p].playtime
              /\ file[p].playtime <= pre[p].playtime
         /\ \A p \in ev.roster : out.welcome[p] # "none"
    /\ ~ev.first =>
         \A p \in ev.roster \cap DOMAIN pre :
           pre[p].online => out.welcome[p] = "none"

\* the snapshot holds the player as online, last checked before now
C16_Witness ==
  /\ CycleDone /\ ev.first /\ "p1" \in ev.roster
  /\ "p1" \in DOMAIN pre /\ pre["p1"].online /\ ~pre["p1"].banned
  /\ pre["p1"].last_checked < now /\ pre["p1"].playtime > 0
  /\ file["p1"].playtime = pre["p1"].playtime

\* C17: the first cycle after the server was unreachable, in the same
\* process run, adds nothing to the playtime of any player.
C17_NoAccrualAcrossOutage ==
  CycleDone /\ ev.outage /\ ~ev.first =>
    \A p \in DOMAIN pre : mem_roster[p].playtime <= pre[p].playtime

\* C18: a cmd_addtime that completes while a cycle is between its first load
\* and its save is not lost: the rollover it wrote is in the ledger after
\* the cycle's save (the cycle applies no reset here), and so is what the
\* cycle wrote.
C18_NoLostUpdate ==
  ( /\ ev.op = "race" /\ ev.who \in DOMAIN pre
    /\ out.reset = {} /\ out.broadcast # "ended" )
  => /\ file[ev.who].rollover_time
          = pre[ev.who].rollover_time + ev.minutes * 60
     /\ \A p \in ev.roster : file[p].last_checked = now

\* C19: the first quota-day cycle after the freeplay period was announced
\* saves, for every known player, rollover 0 and banned false; playtime is 0
\* and the flags are cleared before the roster is charged; one pardon is
\* sent per known player; the exit reset leaves the online flags alone.
C19_FreeplayExitResetSaved ==
  CycleDone /\ out.broadcast = "ended" =>
    \A p \in DOMAIN pre :
      /\ file[p].rollover_time = 0
      /\ ~file[p].banned
      /\ p \notin ev.roster =>
           mem_roster[p].playtime = 0 /\ mem_roster[p].announcements = {}
      /\ out.pardon[p] = 1
      /\ mem[p].online = mem_reset[p].online

\* the cycle before this one, in this process run, was on a freeplay day
PrevFreeplay == ev.prev_cycle >= 0 /\ IsFreeplay(ev.prev_cycle)

\* C20: in one process run the "started" broadcast is sent in exactly the
\* cycles on a freeplay day that do not follow a freeplay-day cycle, the
\* "ended" broadcast in exactly the quota-day cycles that follow a
\* freeplay-day cycle, and no other cycle sends either.
C20_BroadcastsAlternate ==
  AnyCycle =>
    out.broadcast = IF IsFreeplay(now) /\ ~PrevFreeplay THEN "started"
                    ELSE IF ~IsFreeplay(now) /\ PrevFreeplay THEN "ended"
                    ELSE "none"

\* started, ended, and started again when the clock is set back over midnight
C20_Witness ==
  /\ CycleDone /\ out.broadcast = "started"
  /\ ev.prev_cycle >= 0 /\ ~IsFreeplay(ev.prev_cycle) /\ ev.announced = FALSE
  /\ steps = 3

\* the session of ev.who before and after the command, all other sessions
\* and the key set being unchanged
OthersUntouched ==
  /\ DOMAIN file = DOMAIN pre
  /\ \A q \in DOMAIN pre : q # ev.who => file[q] = pre[q]

GambleResolved == ev.op = "gamble" /\ ev.accepted

\* C21: an accepted gamble of b = bet * 60 seconds that loses takes b from
\* the rollover when rollover >= b and leaves playtime as it was; otherwise
\* it sets rollover to 0 and adds b minus the previous rollover to playtime;
\* at multiplier 2.0 the gamble loses when the draw is >= 0.45.
C21_LossDebitsRolloverFirst ==
  GambleResolved /\ ~ev.won =>
    LET b == ev.bet * 60
        d == pre[ev.who]
        e == file[ev.who]
    IN /\ d.rollover_time >= b =>
            e.rollover_time = d.rollover_time - b /\ e.playtime = d.playtime
       /\ d.rollover_time < b =>
            e.rollover_time = 0
            /\ e.playtime = d.playtime + (b - d.rollover_time)
       /\ e = [d EXCEPT !.rollover_time = e.rollover_time,
                        !.playtime = e.playtime]
       /\ OthersUntouched
       /\ ev.mult = 20000 => ev.roll >= 4500000

\* rollover 0, bet 300 s at 2.0, draw 0.45: playtime grows by 300
C21_Witness ==
  /\ GambleResolved /\ ~ev.won /\ ev.bet = 5 /\ ev.mult = 20000
  /\ ev.roll = 4500000 /\ pre[ev.who].rollover_time = 0
  /\ file[ev.who].rollover_time = 0
  /\ file[ev.who].playtime = pre[ev.who].playtime + 300

\* C22: an accepted gamble of b seconds at table multiplier m that wins
\* adds exactly b * (m - 1) to the rollover and changes nothing else.
C22_WinCreditsExactly ==
  GambleResolved /\ ev.won =>
    /\ file[ev.who]
         = [pre[ev.who] EXCEPT !.rollover_time =
              @ + (ev.bet * 60 * (MatchedMultiplier(ev.mult) - 10000)) \div 10000]
    /\ OthersUntouched

\* C23: a gamble whose multiplier is not one of the eight table values is
\* rejected: no draw is made and the ledger does not change.
C23_OffTableRejected ==
  ev.op = "gamble" /\ ev.mult \notin GambleTable =>
    ~ev.accepted /\ ev.roll = NoDraw /\ file = pre

\* C24: a gamble leaves the ledger unchanged and makes no draw when today is
\* a freeplay day of the calendar, the player has no entry, remaining is
\* below 300 s, the bet is below 5 minutes or above remaining (checked for
\* requests that name a table multiplier).
C24_PreconditionsReject ==
  ( /\ ev.op = "gamble" /\ ev.mult \in GambleTable
    /\ \/ IsFreeplay(now)
       \/ ev.who \notin DOMAIN pre
       \/ Remaining(pre[ev.who]) < 300
       \/ ev.bet < 5
       \/ ev.bet * 60 > Remaining(pre[ev.who]) )
  => ev.roll = NoDraw /\ file = pre

\* C25: an unknown command, and unban, addtime, resettime or adminhelp typed
\* by a player who is not an admin, gets a reply to that player only,
\* changes no session and sends no pardon or ban.
C25_RefusedChangesNothing ==
  ( /\ ev.op = "chat"
    /\ ev.cmd \notin Registered \/ (ev.cmd \in AdminOnly /\ ev.issuer \notin Admins) )
  => /\ file = pre
     /\ out = [NoOut EXCEPT !.refusal = ev.issuer]

\* a player who is not an admin types !resettime for a banned player
C25_Witness ==
  /\ ev.op = "chat" /\ ev.cmd = "resettime" /\ ev.issuer = "p2"
  /\ ev.who \in DOMAIN pre /\ pre[ev.who].banned /\ file[ev.who].banned
  /\ pre[ev.who].rollover_time > 0 /\ out.refusal = "p2"

\* C26: no failure of the health check, of the roster fetch or of an
\* outbound command stops the loop of managed_session_manager.
C26_LoopNeverStops == sup # "dead"

FetchFailed == ev.op = "fetch_failed"

\* C27: a cycle whose roster fetch fails leaves playtime, rollover, banned,
\* session_date and the announcement flags of every saved session as they
\* were, and adds or removes no session.
C27_FailedFetchKeepsLedger ==
  FetchFailed =>
    /\ DOMAIN file = DOMAIN pre
    /\ \A p \in DOMAIN pre :
         /\ file[p].playtime = pre[p].playtime
         /\ file[p].rollover_time = pre[p].rollover_time
         /\ file[p].banned = pre[p].banned
         /\ file[p].session_date = pre[p].session_date
         /\ file[p].announcements = pre[p].announcements
    /\ out = NoOut

\* the fetch fails in the first cycle, after the forcing was saved
C27_Witness ==
  /\ FetchFailed /\ ev.first /\ "p1" \in DOMAIN pre
  /\ pre["p1"].online /\ ~file["p1"].online /\ file["p1"].last_checked = now
  /\ file["p1"].playtime = pre["p1"].playtime /\ pre["p1"].playtime > 0

HandlerRaised == ev.op = "handler_error"

C29_Label(data) ==
  LET c == {k \in 1..Len(thresholds) :
              /\ Remaining(data) <= thresholds[k][1]
              /\ thresholds[k][2] \notin data.announcements}
  IN IF c = {} THEN "none"
     ELSE thresholds[CHOOSE k \in c : \A j \in c : k <= j][2]

C29_Fired(p) == {out.label[p]} \ {"none"}

\* C29 as stated: on a quota day at most one label fires per player, that of
\* the smallest matching threshold, and every other flag keeps its value in
\* that cycle.
C29_OthersKeepValue ==
  CycleDone /\ ~IsFreeplay(now) =>
    \A p \in DOMAIN file :
      /\ out.label[p] = C29_Label(mem_roster[p])
      /\ file[p].announcements = mem_roster[p].announcements \cup C29_Fired(p)

\* C29 amended: ... every other flag keeps its value in that cycle, unless
\* limit enforcement bans the player in the same cycle, which clears all
\* five flags.
C29_OneLabelPerCycle ==
  CycleDone /\ ~IsFreeplay(now) =>
    \A p \in DOMAIN file :
      /\ out.label[p] = C29_Label(mem_roster[p])
      /\ file[p].announcements =
           IF p \in out.ban_limit THEN {}
           ELSE mem_roster[p].announcements \cup C29_Fired(p)

\* remaining is below several thresholds whose flags are not set: only the
\* smallest fires
C29_Witness ==
  \E p \in DOMAIN file :
    /\ CycleDone /\ ~IsFreeplay(now) /\ p \notin out.ban_limit
    /\ Remaining(mem_roster[p]) <= 60 /\ Remaining(mem_roster[p]) > 0
    /\ mem_roster[p].announcements = {}
    /\ out.label[p] = "1min" /\ file[p].announcements = {"1min"}

\* C30: a cycle on a freeplay day issues no ban, sets no banned flag, sends
\* no threshold announcement and sets no label.
C30_FreeplayNoEnforcement ==
  AnyCycle /\ IsFreeplay(now) =>
    /\ out.ban_limit = {} /\ out.ban_evade = {}
    /\ \A p \in Players : out.label[p] = "none"
    /\ \A p \in DOMAIN file :
         /\ file[p].banned => p \in DOMAIN pre /\ pre[p].banned
         /\ file[p].announcements
              = IF p \in DOMAIN pre THEN pre[p].announcements ELSE {}

\* over the limit, banned and read as online in the roster of a freeplay day
C30_Witness ==
  \E p \in DOMAIN pre :
    /\ CycleDone /\ IsFreeplay(now) /\ p \in ev.roster /\ WasOnline(p)
    /\ pre[p].banned /\ Remaining(file[p]) <= 0
    /\ out.ban_evade = {} /\ out.ban_limit = {}

\* C31: at the end of every cycle the session of every player who is not
\* in the cycle's roster has online = FALSE: online = TRUE implies that the
\* player was in the roster of the most recent cycle.
C31_OnlineOnlyInRoster ==
  AnyCycle => \A p \in DOMAIN file : file[p].online => p \in ev.roster

\* a player read as online has left the roster, another one stays online
C31_Witness ==
  /\ CycleDone /\ ~ev.first
  /\ \E p \in DOMAIN pre, q \in ev.roster :
       /\ pre[p].online /\ p \notin ev.roster /\ ~file[p].online
       /\ file[q].online

\* the player was banned by limit enforcement in an earlier cycle of today,
\* holding today's session_date
BannedTodayInSession(p) ==
  /\ p \notin out.ban_limit
  /\ ban_day[p] = Date(now) /\ ban_session_date[p] = Date(now)

C33_BannedOrBelowLimit ==
  AnyCycle /\ ~IsFreeplay(now) =>
    \A p \in DOMAIN file :
      file[p].banned \/ file[p].playtime < PLAY_LIMIT + file[p].rollover_time

\* one player reaches the limit and is banned, another stays below it
C33_Witness ==
  /\ CycleDone /\ ~IsFreeplay(now)
  /\ \E p \in out.ban_limit :
       /\ mem_roster[p].playtime >= PLAY_LIMIT + mem_roster[p].rollover_time
       /\ file[p].banned /\ file[p].playtime = 0
  /\ \E q \in DOMAIN file : ~file[q].banned /\ file[q].playtime > 0

\* C34: with no gamble and no admin command so far, a player whom limit
\* enforcement bans holds playtime < base limit + rollover + 120 at that
\* moment.
C34_OverrunBelowOneCharge ==
  AnyCycle /\ commands = 0 =>
    \A p \in out.ban_limit :
      mem_roster[p].playtime
        < PLAY_LIMIT + mem_roster[p].rollover_time + 120

\* C35 as stated: a cycle announces a threshold and issues a limit ban only
\* for players of its roster.
C35_OnlyRosterEnforced ==
  AnyCycle =>
    \A p \in Players :
      out.label[p] # "none" \/ p \in out.ban_limit => p \in ev.roster

\* C35 amended: on a quota day the thresholds and the limit are evaluated
\* for every session of the ledger, whether or not the player is in the
\* roster: an announcement is sent exactly when remaining <= a threshold
\* whose label is not set, a ban exactly when playtime >= base limit +
\* rollover and the player is not banned.
C35_EveryEntryEnforced ==
  AnyCycle /\ ~IsFreeplay(now) =>
    \A p \in DOMAIN mem_roster :
      LET d == mem_roster[p]
      IN /\ p \in out.ban_limit <=>
              /\ Max(0, d.playtime) >= PLAY_LIMIT + d.rollover_time
              /\ ~d.banned
         /\ out.label[p] # "none" <=>
              \E k \in 1..Len(thresholds) :
                /\ Remaining(d) <= thresholds[k][1]
                /\ thresholds[k][2] \notin d.announcements

\* a player who is in the ledger and not in the roster is announced and
\* banned
C35_Witness ==
  \E p \in DOMAIN pre :
    /\ CycleDone /\ p \notin ev.roster
    /\ p \in out.ban_limit /\ out.label[p] # "none" /\ file[p].banned

\* C36: for a session with rollover >= 0 an accepted gamble that loses
\* lowers remaining by the bet and leaves it >= 0: playtime stays at or
\* below base limit + rollover.
C36_LossKeepsRemainingNonNegative ==
  GambleResolved /\ ~ev.won /\ pre[ev.who].rollover_time >= 0 =>
    /\ Remaining(file[ev.who]) = Remaining(pre[ev.who]) - ev.bet * 60
    /\ Remaining(file[ev.who]) >= 0
    /\ file[ev.who].playtime
         <= PLAY_LIMIT + file[ev.who].rollover_time

\* the whole remaining time is bet and lost
C36_Witness ==
  /\ GambleResolved /\ ~ev.won /\ ev.bet = 180
  /\ Remaining(pre[ev.who]) = 10800 /\ Remaining(file[ev.who]) = 0
  /\ file[ev.who].playtime = PLAY_LIMIT

\* C37: an admin's resettime on a known player sets playtime and rollover
\* to 0, banned to FALSE, clears the five flags and sends one pardon; online,
\* last_checked, session_date and every other session stay; for an unknown
\* player the ledger stays and no pardon is sent.
C37_ResetTimeFrame ==
  ev.op = "resettime" =>
    IF ev.who \in DOMAIN pre
    THEN /\ file[ev.who].playtime = 0 /\ file[ev.who].rollover_time = 0
         /\ ~file[ev.who].banned /\ file[ev.who].announcements = {}
         /\ file[ev.who].online = pre[ev.who].online
         /\ file[ev.who].last_checked = pre[ev.who].last_checked
         /\ file[ev.who].session_date = pre[ev.who].session_date
         /\ OthersUntouched
         /\ out = [NoOut EXCEPT !.pardon[ev.who] = 1]
    ELSE file = pre /\ out = NoOut

\* the reset of a banned player who is online, with rollover and a flag set
C37_Witness ==
  /\ ev.op = "resettime" /\ ev.who \in DOMAIN pre
  /\ pre[ev.who].banned /\ pre[ev.who].online
  /\ pre[ev.who].rollover_time > 0 /\ DOMAIN pre # {ev.who}
  /\ file[ev.who].rollover_time = 0 /\ out.pardon[ev.who] = 1

\* C38: every delay the reconnect loop sleeps is at least 5 s and at most
\* 300 s.
C38_DelayWithinBounds ==
  conn.outcome # "none" =>
    /\ conn.slept = current_delay
    /\ base_delay <= conn.slept /\ conn.slept <= max_delay

\* the twelfth attempt in a row raises: 5 * 2^12 is capped
C38_Witness ==
  /\ conn.outcome = "exception" /\ attempt = 12 /\ consecutive_failures <= 5
  /\ conn.slept = max_delay

\* C39: after a "disconnected" message of the server the loop sleeps the
\* base delay and increments neither attempt nor consecutive_failures.
C39_ServerDisconnectShortDelay ==
  conn.outcome = "server" =>
    /\ conn.slept = base_delay
    /\ attempt = AfterStable(conn.stable, conn.attempt0)
    /\ consecutive_failures = AfterStable(conn.stable, conn.failures0)

====
